---------------------------- MODULE Spec2Model ----------------------------
(***************************************************************************)
(* Defect tracking and promotion in the RoboNav dashboard: the IoU tracker *)
(* of the detection component (updateTrackedFaces / checkFaceTimeout, the  *)
(* camera listener and the eviction timer) and the promoter of the data    *)
(* context (addDefect).                                                    *)
(*                                                                         *)
(* Time is Date.now() in milliseconds.  Real numbers are exact rationals:  *)
(* an IoU is a record [num, den] (num/den as the code divides them, 0/0    *)
(* being JavaScript's NaN), a confidence is kept in thousandths.           *)
(***************************************************************************)
EXTENDS Integers, Sequences, FiniteSets, TLC

VARIABLES
    clock,              \* Date.now()
    objs,               \* heap of TrackedFace objects, by allocation number
    trackedFaces,       \* React state: array of object references
    nextId,             \* React state: next track id
    sub,                \* the listener's closure: [active, faces, nextId]
    inflight,           \* closures of the runInference calls awaiting the model
    lastInferenceTime,  \* lastInferenceTimeRef.current
    timerNext,          \* when the 500 ms eviction interval fires next
    resubs,             \* number of times the listener effect has run
    defects,            \* DataProvider state: the defect store
    processedFaceBoxes, \* processedFaceBoxesRef.current
    lastAddTime,        \* lastAddTimeRef.current
    defectFrom,         \* for each defect, the track object it was made from
    cycle,              \* locals of the update that has just run: the detections,
                        \* <<detection, object>> for each match and each creation
    argA, argB,         \* inputs of the pure-function specifications
    teleop,             \* the teleoperation component Input
    appDefects,         \* App state: the defects received on the defect topic
    evicted             \* history: the ids of the timed-out tracks that a call
                        \* of checkFaceTimeout has taken off the state array

vars == <<clock, objs, trackedFaces, nextId, sub, inflight, lastInferenceTime,
          timerNext, resubs, defects, processedFaceBoxes, lastAddTime,
          defectFrom, cycle, argA, argB, teleop, appDefects, evicted,
          teleop>>

trackerVars == <<clock, objs, trackedFaces, nextId, sub, inflight,
                 lastInferenceTime, timerNext, resubs, defects,
                 processedFaceBoxes, lastAddTime, defectFrom, cycle, evicted>>

-----------------------------------------------------------------------------
(* Bounds of the model *)

\* boxes of the pure-function specification have corners on 0..GridMax
GridMax == 3
\* the clock runs from StartTime to StartTime + MaxElapsed
MaxElapsed == 2500
\* the clock of the ten-second specification runs to StartTime + MaxElapsedLong
MaxElapsedLong == 10000
\* the clock of the matching specification runs to StartTime + MaxElapsedMatch
MaxElapsedMatch == 1000
\* the tie specification: its clock runs to StartTime + MaxElapsedTie, the
\* listener effect runs MaxSubsTie times, MaxAllocTie objects are allocated
MaxElapsedTie == 3000
\* the epoch specification: Date.now() runs from 0 to MaxElapsedEpoch
MaxElapsedEpoch == 2000
MaxSubsTie == 5
MaxAllocTie == 4
\* detections in one inference result
MaxDets == 2
\* TrackedFace objects allocated over a run
MaxAlloc == 3
\* runInference calls awaiting their result at once
MaxInflight == 1
\* the same, where inferences may take longer than THROTTLE_INTERVAL
MaxInflightOverlap == 2
\* runs of the listener effect (subscriptions)
MaxSubs == 2

\* defects in one message of the defect topic
MaxMsgDefects == 2

\* confidences of the severity specification, in thousandths: 0..MaxConfidence
MaxConfidence == 1000

\* Date.now() when the component mounts
StartTime == 10000
-----------------------------------------------------------------------------
(* Program constants *)

THROTTLE_INTERVAL == 500
FACE_PERSISTENCE_TIMEOUT == 2000
TIMER_INTERVAL == 500
COOLDOWN_MS == 2000

\* step of the clock: one period of the eviction interval
TickMs == TIMER_INTERVAL
\* IoU thresholds, as exact fractions
MATCH_THRESHOLD == [num |-> 1, den |-> 10]
ANTI_DUP_THRESHOLD == [num |-> 1, den |-> 20]
IOU_THRESHOLD == [num |-> 1, den |-> 2]

-----------------------------------------------------------------------------
(* GeometryUtils *)

Max(a, b) == IF a >= b THEN a ELSE b
Min(a, b) == IF a <= b THEN a ELSE b

Zero == [num |-> 0, den |-> 1]

\* faulty variant of UnionArea: the intersection is counted twice
UnionAreaNoSubtract(areaA, areaB, inter) == areaA + areaB

\* unionArea of calculateIoU
UnionArea(areaA, areaB, inter) == areaA + areaB - inter

\* the early return of calculateIoU
NoIntersection(xLeft, yTop, xRight, yBottom) ==
    xRight < xLeft \/ yBottom < yTop

\* calculateIoU(boxA, boxB): the quotient intersectionArea / unionArea, undivided
calculateIoU(boxA, boxB) ==
    LET xLeft   == Max(boxA[1], boxB[1])
        yTop    == Max(boxA[2], boxB[2])
        xRight  == Min(boxA[3], boxB[3])
        yBottom == Min(boxA[4], boxB[4])
        intersectionArea == (xRight - xLeft) * (yBottom - yTop)
        boxAArea == (boxA[3] - boxA[1]) * (boxA[4] - boxA[2])
        boxBArea == (boxB[3] - boxB[1]) * (boxB[4] - boxB[2])
    IN  IF NoIntersection(xLeft, yTop, xRight, yBottom)
        THEN Zero
        ELSE [num |-> intersectionArea,
              den |-> UnionArea(boxAArea, boxBArea, intersectionArea)]

\* a quotient of JavaScript numbers: 0/0 is NaN, x/0 is +-Infinity
IsNaN(r) == r.den = 0 /\ r.num = 0
IsFiniteNumber(r) == r.den # 0

\* a quotient with a non-negative denominator
Norm(r) == IF r.den < 0 THEN [num |-> 0 - r.num, den |-> 0 - r.den] ELSE r

\* r > t as JavaScript compares the two quotients; false when either is NaN
Gt(r, t) ==
    LET a == Norm(r)
        b == Norm(t)
    IN  ~IsNaN(a) /\ ~IsNaN(b) /\ a.num * b.den > b.num * a.den

\* r = n as numbers; false for NaN and the infinities
EqInt(r, n) == r.den # 0 /\ r.num = n * r.den

\* r = s as numbers
EqNum(r, s) == r.den # 0 /\ s.den # 0 /\ r.num * s.den = s.num * r.den



-----------------------------------------------------------------------------
(* Inputs: what the face model reports above THRESHOLD, [x1, y1, x2, y2, confidence] *)

\* B1 and B3 overlap by 1/3, B3 and B4 by 1/19, B1 and B4 are disjoint
B1 == <<0, 0, 10, 10, 950>>
B3 == <<5, 0, 15, 10, 750>>
B4 == <<14, 0, 24, 10, 850>>

Detections == {B1, B3, B4}

\* boxes for the matching pass: B2 touches B1 (IoU 0) and overlaps B3 by 1/3,
\* as B1 does; B5 overlaps B1 by 3/7 and B2 by 1/4; B6 overlaps B1 by exactly
\* 1/10 and B2 by 5/6
B2 == <<10, 0, 20, 10, 850>>
B5 == <<4, 0, 14, 10, 950>>
B6 == <<8, 0, 20, 10, 750>>

MatchDetections == {B1, B2, B3, B5, B6}

\* a box that touches B2 and is apart from B1
B7 == <<20, 0, 30, 10, 850>>

\* a box of zero width that the model scores above THRESHOLD
BZ == <<12, 0, 12, 10, 950>>

\* the detection lists of one inference result
SeqsUpTo(S, n) == UNION {[1..k -> S] : k \in 0..n}
DetectionLists == SeqsUpTo(Detections, MaxDets)

-----------------------------------------------------------------------------
(* DefectPromoter: addDefect of the data context *)

\* faulty variant of determineSeverity: the thresholds are inclusive
determineSeverityInclusive(confidence) ==
    IF confidence >= 900 THEN "critical"
    ELSE IF confidence >= 800 THEN "high"
    ELSE IF confidence >= 700 THEN "medium"
    ELSE "low"

\* determineSeverity(confidence), confidence in thousandths
determineSeverity(confidence) ==
    IF confidence > 900 THEN "critical"
    ELSE IF confidence > 800 THEN "high"
    ELSE IF confidence > 700 THEN "medium"
    ELSE "low"

\* faulty variant of CooldownActive: no cooldown
CooldownActiveNever(now, last) == FALSE

\* faulty variant of CooldownActive: the cooldown also covers its last instant
CooldownActiveInclusive(now, last) == now - last <= COOLDOWN_MS

\* the cooldown gate of addDefect: TRUE when the call returns early
CooldownActive(now, last) == now - last < COOLDOWN_MS

\* faulty variant of isDuplicate: no box is a duplicate
isDuplicateNever(box, processed) == FALSE

\* the duplicate check of addDefect against the boxes already promoted
isDuplicate(box, processed) ==
    \E k \in 1..Len(processed) : Gt(calculateIoU(box, processed[k]), IOU_THRESHOLD)

\* newDefect of addDefect (confidence in thousandths of a percent)
NewDefect(faceData, now) ==
    [id         |-> <<faceData.id, now % 10000>>,
     timestamp  |-> now,
     position   |-> [x |-> faceData.box[1], y |-> faceData.box[2], z |-> 0],
     severity   |-> determineSeverity(faceData.box[5]),
     type       |-> "Visual Defect",
     confidence |-> faceData.box[5] * 100]

\* faulty variant of addDefect: a duplicate box restarts the cooldown
addDefectMarking(p, oid, faceData, now) ==
    IF CooldownActive(now, p.last) THEN p
    ELSE IF isDuplicate(faceData.box, p.processed) THEN [p EXCEPT !.last = now]
    ELSE [defects   |-> Append(p.defects, NewDefect(faceData, now)),
          processed |-> Append(p.processed, faceData.box),
          last      |-> now,
          from      |-> Append(p.from, oid)]

\* addDefect(faceData) at time now on the promoter state p =
\* [defects, processed, last, from]; from lists the object each defect came from
addDefect(p, oid, faceData, now) ==
    IF CooldownActive(now, p.last) THEN p
    ELSE IF isDuplicate(faceData.box, p.processed) THEN p
    ELSE [defects   |-> Append(p.defects, NewDefect(faceData, now)),
          processed |-> Append(p.processed, faceData.box),
          last      |-> now,
          from      |-> Append(p.from, oid)]

-----------------------------------------------------------------------------
(* ObjectTracker: updateTrackedFaces and checkFaceTimeout *)

\* faulty variant of BestFrom: the first candidate above bestIoU is taken
RECURSIVE BestFromFirst(_, _, _, _, _, _, _)
BestFromFirst(i, newBox, faces, os, matchedExisting, bestIoU, bestMatchIndex) ==
    IF i > Len(faces) THEN bestMatchIndex
    ELSE IF i \in matchedExisting
         THEN BestFromFirst(i + 1, newBox, faces, os, matchedExisting, bestIoU, bestMatchIndex)
         ELSE IF Gt(calculateIoU(newBox, os[faces[i]].box), bestIoU)
              THEN i
              ELSE BestFromFirst(i + 1, newBox, faces, os, matchedExisting, bestIoU, bestMatchIndex)

\* the inner loop of the matching pass: index of the best candidate from i on,
\* bestMatchIndex when none beats bestIoU (0 stands for -1)
RECURSIVE BestFrom(_, _, _, _, _, _, _)
BestFrom(i, newBox, faces, os, matchedExisting, bestIoU, bestMatchIndex) ==
    IF i > Len(faces) THEN bestMatchIndex
    ELSE IF i \in matchedExisting
         THEN BestFrom(i + 1, newBox, faces, os, matchedExisting, bestIoU, bestMatchIndex)
         ELSE LET iou == calculateIoU(newBox, os[faces[i]].box)
              IN  IF Gt(iou, bestIoU)
                  THEN BestFrom(i + 1, newBox, faces, os, matchedExisting, iou, i)
                  ELSE BestFrom(i + 1, newBox, faces, os, matchedExisting, bestIoU, bestMatchIndex)

\* faulty variant of SkipMatched: a matched track stays a candidate
SkipMatchedNone(matchedExisting) == {}

\* the tracks the inner loop skips: those matched earlier in this cycle
SkipMatched(matchedExisting) == matchedExisting

\* faulty variant of ApplyMatch: the matched track keeps its lastSeen
ApplyMatchNoRefresh(u, newIdx, best, newBox, now) ==
    [u EXCEPT !.objs[u.faces[best]].box = newBox,
              !.matchedExisting = @ \cup {best},
              !.matchedNew = @ \cup {newIdx},
              !.matches = Append(@, <<newIdx, u.faces[best]>>)]

\* faulty variant of ApplyMatch: the matched track is handed to the promoter
ApplyMatchPromoting(u, newIdx, best, newBox, now) ==
    [u EXCEPT !.objs[u.faces[best]].box = newBox,
              !.objs[u.faces[best]].lastSeen = now,
              !.matchedExisting = @ \cup {best},
              !.matchedNew = @ \cup {newIdx},
              !.matches = Append(@, <<newIdx, u.faces[best]>>),
              !.prom = addDefect(@, u.faces[best],
                                 [u.objs[u.faces[best]] EXCEPT !.box = newBox], now)]

\* an accepted match: the track takes the detection's box and the current time,
\* and both are marked as consumed; nothing is handed to the promoter
ApplyMatch(u, newIdx, best, newBox, now) ==
    [u EXCEPT !.objs[u.faces[best]].box = newBox,
              !.objs[u.faces[best]].lastSeen = now,
              !.matchedExisting = @ \cup {best},
              !.matchedNew = @ \cup {newIdx},
              !.matches = Append(@, <<newIdx, u.faces[best]>>)]

\* the matching pass over newDetections[newIdx..]; u carries the locals
RECURSIVE MatchPass(_, _, _, _)
MatchPass(newIdx, newDetections, now, u) ==
    IF newIdx > Len(newDetections) THEN u
    ELSE LET newBox == newDetections[newIdx]
             best   == BestFrom(1, newBox, u.faces, u.objs,
                                SkipMatched(u.matchedExisting), MATCH_THRESHOLD, 0)
         IN  IF best # 0
             THEN MatchPass(newIdx + 1, newDetections, now,
                            ApplyMatch(u, newIdx, best, newBox, now))
             ELSE MatchPass(newIdx + 1, newDetections, now, u)

\* faulty variant of AntiDupCandidates: only the tracks of the start of the cycle
AntiDupCandidatesInitialOnly(faces, initialLen) == 1..initialLen

\* the tracks an unmatched detection is compared with: updatedFaces as it stands,
\* the tracks pushed earlier in this pass included
AntiDupCandidates(faces, initialLen) == 1..Len(faces)

tooClose(det, faces, os, initialLen) ==
    \E i \in AntiDupCandidates(faces, initialLen) :
        Gt(calculateIoU(det, os[faces[i]].box), ANTI_DUP_THRESHOLD)

\* faulty variant of CreatePass: only the first track created in a cycle is
\* handed to addDefect
RECURSIVE CreatePassFirstOnly(_, _, _, _, _)
CreatePassFirstOnly(newIdx, newDetections, now, initialLen, u) ==
    IF newIdx > Len(newDetections) THEN u
    ELSE IF newIdx \in u.matchedNew
         THEN CreatePassFirstOnly(newIdx + 1, newDetections, now, initialLen, u)
    ELSE IF tooClose(newDetections[newIdx], u.faces, u.objs, initialLen)
         THEN CreatePassFirstOnly(newIdx + 1, newDetections, now, initialLen,
                         [u EXCEPT !.discarded = @ \cup {newIdx}])
    ELSE LET newFace == [id |-> u.idCounter, box |-> newDetections[newIdx],
                         lastSeen |-> now]
             oid == Len(u.objs) + 1
         IN  CreatePassFirstOnly(newIdx + 1, newDetections, now, initialLen,
                [u EXCEPT !.objs = Append(@, newFace),
                          !.faces = Append(@, oid),
                          !.idCounter = @ + 1,
                          !.created = Append(@, <<newIdx, oid>>),
                          !.prom = IF u.created = <<>>
                                   THEN addDefect(@, oid, newFace, now)
                                   ELSE @])

\* faulty variant of CreatePass: the matched detections are not skipped
RECURSIVE CreatePassNoSkip(_, _, _, _, _)
CreatePassNoSkip(newIdx, newDetections, now, initialLen, u) ==
    IF newIdx > Len(newDetections) THEN u
    ELSE IF tooClose(newDetections[newIdx], u.faces, u.objs, initialLen)
         THEN CreatePassNoSkip(newIdx + 1, newDetections, now, initialLen,
                         [u EXCEPT !.discarded = @ \cup {newIdx}])
    ELSE LET newFace == [id |-> u.idCounter, box |-> newDetections[newIdx],
                         lastSeen |-> now]
             oid == Len(u.objs) + 1
         IN  CreatePassNoSkip(newIdx + 1, newDetections, now, initialLen,
                [u EXCEPT !.objs = Append(@, newFace),
                          !.faces = Append(@, oid),
                          !.idCounter = @ + 1,
                          !.created = Append(@, <<newIdx, oid>>),
                          !.prom = addDefect(@, oid, newFace, now)])

\* the creation pass over newDetections[newIdx..]
RECURSIVE CreatePass(_, _, _, _, _)
CreatePass(newIdx, newDetections, now, initialLen, u) ==
    IF newIdx > Len(newDetections) THEN u
    ELSE IF newIdx \in u.matchedNew
         THEN CreatePass(newIdx + 1, newDetections, now, initialLen, u)
    ELSE IF tooClose(newDetections[newIdx], u.faces, u.objs, initialLen)
         THEN CreatePass(newIdx + 1, newDetections, now, initialLen,
                         [u EXCEPT !.discarded = @ \cup {newIdx}])
    ELSE LET newFace == [id |-> u.idCounter, box |-> newDetections[newIdx],
                         lastSeen |-> now]
             oid == Len(u.objs) + 1
         IN  CreatePass(newIdx + 1, newDetections, now, initialLen,
                [u EXCEPT !.objs = Append(@, newFace),
                          !.faces = Append(@, oid),
                          !.idCounter = @ + 1,
                          !.created = Append(@, <<newIdx, oid>>),
                          !.prom = addDefect(@, oid, newFace, now)])

\* updateTrackedFaces(newDetections) run in the closure cl = [faces, nextId]
updateTrackedFaces(cl, newDetections, now, os, p) ==
    LET u0 == [objs |-> os, faces |-> cl.faces, idCounter |-> cl.nextId,
               matchedExisting |-> {}, matchedNew |-> {}, matches |-> <<>>,
               discarded |-> {}, created |-> <<>>, prom |-> p]
        u1 == MatchPass(1, newDetections, now, u0)
    IN  CreatePass(1, newDetections, now, Len(cl.faces), u1)

\* faulty variant of Expired: no face ever times out
ExpiredNever(face, now) == FALSE

\* the filter of checkFaceTimeout drops the faces for which this holds
Expired(face, now) == now - face.lastSeen > FACE_PERSISTENCE_TIMEOUT

RECURSIVE FilterFaces(_, _, _)
FilterFaces(faces, os, now) ==
    IF faces = <<>> THEN <<>>
    ELSE LET rest == FilterFaces(Tail(faces), os, now)
         IN  IF Expired(os[Head(faces)], now) THEN rest ELSE <<Head(faces)>> \o rest

\* checkFaceTimeout() run in a closure whose trackedFaces is faces: the new
\* state array, or current when setTrackedFaces is not called
checkFaceTimeout(faces, os, now, current) ==
    IF Len(faces) > 0 /\ Len(FilterFaces(faces, os, now)) < Len(faces)
    THEN FilterFaces(faces, os, now)
    ELSE current

-----------------------------------------------------------------------------
(* The component: listener, in-flight inferences, eviction timer *)

NoCycle == [kind |-> "none", dets |-> <<>>, matches |-> <<>>, created |-> <<>>,
            discarded |-> {}]

NoSub == [active |-> FALSE, faces |-> <<>>, nextId |-> 0]

\* the objects some array still references: the state array, the listener's
\* closure and the closures of the calls in flight
Range(seq) == {seq[k] : k \in 1..Len(seq)}
Roots(tf, s, inf) ==
    Range(tf) \cup Range(s.faces) \cup UNION {Range(inf[k].faces) : k \in 1..Len(inf)}

\* garbage collection: an object no array references is unreachable and its
\* fields are cleared; its id stays as the record of the allocation
Dead(o) == [id |-> o.id, box |-> <<>>, lastSeen |-> 0]
Collect(os, roots) ==
    [k \in 1..Len(os) |-> IF k \in roots THEN os[k] ELSE Dead(os[k])]

Remove(seq, i) == SubSeq(seq, 1, i - 1) \o SubSeq(seq, i + 1, Len(seq))

\* no direction key of the teleoperation component is held
null == "null"

\* the teleoperation component Input, as teleop holds it,
\* after the first render and its effects: ros is null, so the
\* interval effect's sendStopCommand returns without publishing
InputMounted ==
    [direction |-> null, eStopActive |-> FALSE, overallSpeed |-> 0,
     linearSpeed |-> 10, angularSpeed |-> 10, ros |-> FALSE,
     connection |-> FALSE, timers |-> <<>>, intervalRef |-> 0,
     pendingStops |-> 0, effectsPending |-> FALSE, published |-> <<>>]

\* state after the application, the component and the data context are
\* constructed
\* the state after the first render, at time start
TrackerInitAt(start) ==
    /\ clock = start
    /\ objs = <<>>
    /\ trackedFaces = <<>>
    /\ nextId = 1
    /\ sub = NoSub
    /\ inflight = <<>>
    /\ lastInferenceTime = 0
    /\ timerNext = start + TIMER_INTERVAL
    /\ resubs = 0
    /\ defects = <<>>
    /\ processedFaceBoxes = <<>>
    /\ lastAddTime = 0
    /\ defectFrom = <<>>
    /\ cycle = NoCycle
    /\ appDefects = <<>>
    /\ evicted = {}
    /\ teleop = InputMounted

TrackerInit == TrackerInitAt(StartTime)

Init ==
    /\ TrackerInit
    /\ argA = <<0, 0, 0, 0>>
    /\ argB = <<0, 0, 0, 0>>

\* time passes, up to limit; an interval that is due fires before the clock
\* moves on
TickTo(limit) ==
    /\ clock + TickMs <= limit
    /\ clock < timerNext
    /\ clock' = clock + TickMs
    /\ cycle' = NoCycle
    /\ UNCHANGED <<objs, trackedFaces, nextId, sub, inflight, lastInferenceTime,
                   timerNext, resubs, defects, processedFaceBoxes, lastAddTime,
                   defectFrom, argA, argB, teleop, appDefects,
                   evicted>>

Tick == TickTo(StartTime + MaxElapsed)

\* the listener effect runs (ros, connection or modelLoaded changed): its
\* cleanup unsubscribes the previous callback, and the callback it subscribes
\* closes over the state of the render that ran the effect
SubscribeUpTo(runs) ==
    /\ resubs < runs
    /\ sub' = [active |-> TRUE, faces |-> trackedFaces, nextId |-> nextId]
    /\ resubs' = resubs + 1
    /\ cycle' = NoCycle
    /\ objs' = Collect(objs, Roots(trackedFaces, sub', inflight))
    /\ UNCHANGED <<clock, trackedFaces, nextId, inflight, lastInferenceTime,
                   timerNext, defects, processedFaceBoxes, lastAddTime,
                   defectFrom, argA, argB, teleop, appDefects,
                   evicted>>

Subscribe == SubscribeUpTo(MaxSubs)

\* checkFaceTimeout calls setTrackedFaces
SweepSets(faces) ==
    Len(faces) > 0 /\ Len(FilterFaces(faces, objs, clock)) < Len(faces)

\* a call of checkFaceTimeout in a closure whose trackedFaces is faces; a new
\* state array re-runs the timer effect, which restarts the interval
Sweep(faces, due) ==
    /\ trackedFaces' = checkFaceTimeout(faces, objs, clock, trackedFaces)
    /\ timerNext' = IF SweepSets(faces) THEN clock + TIMER_INTERVAL ELSE due
    /\ evicted' = evicted \cup
                      {objs[t].id : t \in {u \in Range(trackedFaces) \ Range(trackedFaces') :
                                             Expired(objs[u], clock)}}

\* faulty variant of ListenerFrameUpTo: the throttle lets a frame through
\* from the instant of the last start on
ListenerFrameEager(calls) ==
    /\ sub.active
    /\ IF clock - lastInferenceTime < 0
       THEN /\ Sweep(sub.faces, timerNext)
            /\ cycle' = NoCycle
            /\ UNCHANGED <<inflight, lastInferenceTime>>
       ELSE /\ Len(inflight) < calls
            /\ lastInferenceTime' = clock
            /\ inflight' = Append(inflight, [faces |-> sub.faces, nextId |-> sub.nextId])
            /\ cycle' = NoCycle
            /\ UNCHANGED <<trackedFaces, timerNext, evicted>>
    /\ objs' = Collect(objs, Roots(trackedFaces', sub, inflight'))
    /\ UNCHANGED <<clock, nextId, sub, resubs, defects, processedFaceBoxes,
                   lastAddTime, defectFrom, argA, argB, teleop, appDefects>>

\* a camera message with the model loaded: runInference up to its first
\* await, with at most calls calls awaiting their result
ListenerFrameUpTo(calls) ==
    /\ sub.active
    /\ IF clock - lastInferenceTime < THROTTLE_INTERVAL
       THEN /\ Sweep(sub.faces, timerNext)
            /\ cycle' = NoCycle
            /\ UNCHANGED <<inflight, lastInferenceTime>>
       ELSE /\ Len(inflight) < calls
            /\ lastInferenceTime' = clock
            /\ inflight' = Append(inflight, [faces |-> sub.faces, nextId |-> sub.nextId])
            /\ cycle' = NoCycle
            /\ UNCHANGED <<trackedFaces, timerNext, evicted>>
    /\ objs' = Collect(objs, Roots(trackedFaces', sub, inflight'))
    /\ UNCHANGED <<clock, nextId, sub, resubs, defects, processedFaceBoxes,
                   lastAddTime, defectFrom, argA, argB, teleop, appDefects>>

\* an inference resolves with detections above THRESHOLD, one of the lists of
\* results, while at most alloc objects are allocated: updateTrackedFaces
InferenceUpdateOf(results, alloc) ==
    \E i \in 1..Len(inflight), newDetections \in results :
      \E u \in {updateTrackedFaces(inflight[i], newDetections, clock, objs,
                    [defects |-> defects, processed |-> processedFaceBoxes,
                     last |-> lastAddTime, from |-> defectFrom])} :
        /\ Len(u.objs) <= alloc
        /\ trackedFaces' = u.faces
        /\ nextId' = u.idCounter
        /\ defects' = u.prom.defects
        /\ processedFaceBoxes' = u.prom.processed
        /\ lastAddTime' = u.prom.last
        /\ defectFrom' = u.prom.from
        /\ timerNext' = clock + TIMER_INTERVAL
        /\ inflight' = Remove(inflight, i)
        /\ objs' = Collect(u.objs, Roots(trackedFaces', sub, inflight'))
        /\ cycle' = [kind |-> "update", dets |-> newDetections,
                     matches |-> u.matches, created |-> u.created,
                     discarded |-> u.discarded]
        /\ UNCHANGED <<clock, sub, lastInferenceTime, resubs, argA, argB, teleop, appDefects,
                   evicted>>

ListenerFrame == ListenerFrameUpTo(MaxInflight)

InferenceUpdate == InferenceUpdateOf(DetectionLists \ {<<>>}, MaxAlloc)

\* an inference resolves with no detection above THRESHOLD: checkFaceTimeout
InferenceEmpty ==
    \E i \in 1..Len(inflight) :
        /\ Sweep(inflight[i].faces, timerNext)
        /\ inflight' = Remove(inflight, i)
        /\ objs' = Collect(objs, Roots(trackedFaces', sub, inflight'))
        /\ cycle' = NoCycle
        /\ UNCHANGED <<clock, nextId, sub, lastInferenceTime, resubs, defects,
                       processedFaceBoxes, lastAddTime, defectFrom, argA, argB, teleop, appDefects>>

\* an inference fails (image load error, no 2d context, session.run throws)
InferenceError ==
    \E i \in 1..Len(inflight) :
        /\ inflight' = Remove(inflight, i)
        /\ objs' = Collect(objs, Roots(trackedFaces, sub, inflight'))
        /\ cycle' = NoCycle
        /\ UNCHANGED <<clock, trackedFaces, nextId, sub, lastInferenceTime,
                       timerNext, resubs, defects, processedFaceBoxes, lastAddTime,
                       defectFrom, argA, argB, teleop, appDefects,
                   evicted>>

\* the 500 ms interval fires: checkFaceTimeout in the latest render's closure
TimerSweep ==
    /\ clock >= timerNext
    /\ Sweep(trackedFaces, timerNext + TIMER_INTERVAL)
    /\ objs' = Collect(objs, Roots(trackedFaces', sub, inflight))
    /\ cycle' = NoCycle
    /\ UNCHANGED <<clock, nextId, sub, inflight, lastInferenceTime, resubs,
                   defects, processedFaceBoxes, lastAddTime, defectFrom, argA, argB, teleop, appDefects>>

Next ==
    \/ Tick
    \/ Subscribe
    \/ ListenerFrame
    \/ InferenceUpdate
    \/ InferenceEmpty
    \/ InferenceError
    \/ TimerSweep

Spec == Init /\ [][Next]_vars

-----------------------------------------------------------------------------
(* The component over unbounded time.  The tracker and the promoter read a  *)
(* stored time only through its difference from Date.now(), and no          *)
(* comparison changes once that difference exceeds AgeCap: so time passes   *)
(* by moving every stored time back by one period, down to clock - AgeCap,  *)
(* with the clock standing still.  (The timestamp and the id of a defect    *)
(* are then relative too; neither is read by the tracker or the promoter.)  *)

AgeCap == FACE_PERSISTENCE_TIMEOUT + TIMER_INTERVAL

ShiftTime(t) == IF t <= clock - AgeCap THEN t ELSE t - TickMs

\* time passes; an interval that is due fires before the clock moves on
TickShift ==
    /\ clock < timerNext
    /\ objs' = [k \in 1..Len(objs) |->
                   [objs[k] EXCEPT !.lastSeen = ShiftTime(@)]]
    /\ lastInferenceTime' = ShiftTime(lastInferenceTime)
    /\ lastAddTime' = ShiftTime(lastAddTime)
    /\ timerNext' = timerNext - TickMs
    /\ cycle' = NoCycle
    /\ UNCHANGED <<clock, trackedFaces, nextId, sub, inflight, resubs, defects,
                   processedFaceBoxes, defectFrom, argA, argB, teleop, appDefects,
                   evicted>>

\* an inference that finds one face
InferenceUpdateLive == InferenceUpdateOf({<<b>> : b \in Detections}, MaxAlloc)

NextLive ==
    \/ TickShift
    \/ Subscribe
    \/ ListenerFrame
    \/ InferenceUpdateLive
    \/ InferenceEmpty
    \/ InferenceError
    \/ TimerSweep

\* time passes, and the eviction interval fires if it is due again and again
SpecLive ==
    /\ Init
    /\ [][NextLive]_vars
    /\ WF_vars(TickShift)
    /\ SF_vars(TimerSweep)

-----------------------------------------------------------------------------
(* The component over ten seconds, the period of the last four digits of    *)
(* Date.now(): the camera is live in the first and in the last instant only, *)
(* and every inference result is a single detection, B1 or B4               *)

CameraLive == clock \in {StartTime, StartTime + MaxElapsedLong}

TickLong == TickTo(StartTime + MaxElapsedLong)

SubscribeLong == CameraLive /\ Subscribe

ListenerFrameLong == CameraLive /\ ListenerFrame

InferenceUpdateLong == InferenceUpdateOf({<<B1>>, <<B4>>}, MaxAlloc)

NextLong ==
    \/ TickLong
    \/ SubscribeLong
    \/ ListenerFrameLong
    \/ InferenceUpdateLong
    \/ TimerSweep

SpecLong == Init /\ [][NextLong]_vars

-----------------------------------------------------------------------------
(* The component over its first second, with the boxes of MatchDetections:  *)
(* detections tied between two tracks, overlapping two tracks unequally, or *)
(* overlapping a track by exactly MATCH_THRESHOLD                           *)

TickMatch == TickTo(StartTime + MaxElapsedMatch)

InferenceUpdateMatch ==
    InferenceUpdateOf(SeqsUpTo(MatchDetections, MaxDets) \ {<<>>}, MaxAlloc)

NextMatch ==
    \/ TickMatch
    \/ Subscribe
    \/ ListenerFrame
    \/ InferenceUpdateMatch
    \/ InferenceEmpty
    \/ InferenceError
    \/ TimerSweep

SpecMatch == Init /\ [][NextMatch]_vars

-----------------------------------------------------------------------------
(* The component over its first second, with inferences that may take       *)
(* longer than THROTTLE_INTERVAL: runInference tests the time since the     *)
(* last start only, so a second call can be awaiting the model              *)

ListenerFrameOverlap == ListenerFrameUpTo(MaxInflightOverlap)

NextOverlap ==
    \/ TickMatch
    \/ Subscribe
    \/ ListenerFrameOverlap
    \/ InferenceUpdateLong
    \/ InferenceEmpty
    \/ InferenceError
    \/ TimerSweep

SpecOverlap == Init /\ [][NextOverlap]_vars

-----------------------------------------------------------------------------
(* The component mounted at the epoch of the system clock: Date.now() is 0  *)
(* at the first render, where Spec starts at StartTime                      *)

InitEpoch ==
    /\ TrackerInitAt(0)
    /\ argA = <<0, 0, 0, 0>>
    /\ argB = <<0, 0, 0, 0>>

TickEpoch == TickTo(MaxElapsedEpoch)

NextEpoch ==
    \/ TickEpoch
    \/ Subscribe
    \/ ListenerFrame
    \/ InferenceUpdateLive
    \/ InferenceEmpty
    \/ InferenceError
    \/ TimerSweep

SpecEpoch == InitEpoch /\ [][NextEpoch]_vars

-----------------------------------------------------------------------------
(* The component with the score filter of runInference: the model reports   *)
(* boxes of any score, and those with a score above THRESHOLD are handed to *)
(* updateTrackedFaces                                                       *)

\* THRESHOLD of DefectDetection, 0.7, in thousandths
THRESHOLD == 700

\* boxes with a score of exactly THRESHOLD and below it
BT == <<14, 0, 24, 10, 700>>
BL == <<14, 0, 24, 10, 500>>

\* what the model reports: up to MaxDets boxes
RawResults == SeqsUpTo({B1, B3, BT, BL}, MaxDets)

\* faulty variant of ScoreFilter: a score of exactly THRESHOLD passes
ScoreFilterInclusive(raw) == SelectSeq(raw, LAMBDA b : b[5] >= THRESHOLD)

\* confidenceBoxes mapped to newDetections: the boxes whose score is above
\* THRESHOLD, in order
ScoreFilter(raw) == SelectSeq(raw, LAMBDA b : b[5] > THRESHOLD)

\* an inference resolves and some box passes the filter: updateTrackedFaces
InferenceUpdateScored ==
    InferenceUpdateOf({ScoreFilter(raw) : raw \in RawResults} \ {<<>>}, MaxAlloc)

NextScore ==
    \/ Tick
    \/ Subscribe
    \/ ListenerFrame
    \/ InferenceUpdateScored
    \/ InferenceEmpty
    \/ InferenceError
    \/ TimerSweep

SpecScore == Init /\ [][NextScore]_vars

-----------------------------------------------------------------------------
(* The component over three seconds and five runs of the listener effect,   *)
(* in front of one scene: what the model reports depends on the time alone. *)
(* B6 overlaps B1 by exactly MATCH_THRESHOLD, B3 is tied between B1 and B2. *)

SceneTie(now) ==
    IF now = StartTime THEN {<<B1>>}
    ELSE IF now = StartTime + 500 THEN {<<B7, B2>>}
    ELSE IF now = StartTime + 1000 THEN {<<B6>>}
    ELSE IF now = StartTime + 2500 THEN {<<B1>>}
    ELSE IF now = StartTime + 3000 THEN {<<B3>>}
    ELSE {}

TickTie == TickTo(StartTime + MaxElapsedTie)

SubscribeTie == SubscribeUpTo(MaxSubsTie)

InferenceUpdateTie == InferenceUpdateOf(SceneTie(clock), MaxAllocTie)

NextTie ==
    \/ TickTie
    \/ SubscribeTie
    \/ ListenerFrame
    \/ InferenceUpdateTie
    \/ InferenceEmpty
    \/ InferenceError
    \/ TimerSweep

SpecTie == Init /\ [][NextTie]_vars

-----------------------------------------------------------------------------
(* The component when the model also reports a degenerate box: the results  *)
(* are the lists over B1 and BZ                                             *)

InferenceUpdateRaw ==
    InferenceUpdateOf(SeqsUpTo({B1, BZ}, MaxDets) \ {<<>>}, MaxAlloc)

NextRaw ==
    \/ Tick
    \/ Subscribe
    \/ ListenerFrame
    \/ InferenceUpdateRaw
    \/ InferenceEmpty
    \/ InferenceError
    \/ TimerSweep

SpecRaw == Init /\ [][NextRaw]_vars

-----------------------------------------------------------------------------
(* The application's defect topic: subscribeToDefects of App *)

\* the defects a message of /defect_detection/results can carry
MsgDefects ==
    [id : {"D1", "D2"},
     position : {[x |-> 0, y |-> 0, z |-> 0]},
     severity : {"low", "high"},
     type : {"Visual Defect"},
     confidence : {750}]

\* newDefects of the topic callback: each defect of the message, stamped with
\* Date.now(), its confidence turned into a percentage (thousandths kept)
RECURSIVE MapDefects(_, _)
MapDefects(msg, now) ==
    IF msg = <<>> THEN <<>>
    ELSE <<[id         |-> Head(msg).id,
            timestamp  |-> now,
            position   |-> Head(msg).position,
            severity   |-> Head(msg).severity,
            type       |-> Head(msg).type,
            confidence |-> Head(msg).confidence * 100]>>
         \o MapDefects(Tail(msg), now)

\* merged.findIndex(d => d.id === id): 0 stands for -1
RECURSIVE FindIndex(_, _, _)
FindIndex(merged, id, i) ==
    IF i > Len(merged) THEN 0
    ELSE IF merged[i].id = id THEN i
    ELSE FindIndex(merged, id, i + 1)

\* the updater of setDefects: a defect whose id is stored replaces the stored
\* one, any other is pushed
RECURSIVE MergeDefects(_, _)
MergeDefects(merged, newDefects) ==
    IF newDefects = <<>> THEN merged
    ELSE LET existingIndex == FindIndex(merged, Head(newDefects).id, 1)
         IN  IF existingIndex > 0
             THEN MergeDefects([merged EXCEPT ![existingIndex] = Head(newDefects)],
                               Tail(newDefects))
             ELSE MergeDefects(Append(merged, Head(newDefects)), Tail(newDefects))

\* a message arrives on the defect topic
DefectMessage ==
    /\ \E msg \in SeqsUpTo(MsgDefects, MaxMsgDefects) :
           appDefects' = MergeDefects(appDefects, MapDefects(msg, clock))
    /\ UNCHANGED <<trackerVars, argA, argB, teleop>>

\* the defect topic while time passes and the eviction interval runs
NextStore ==
    \/ Tick
    \/ TimerSweep
    \/ DefectMessage

SpecStore == Init /\ [][NextStore]_vars

-----------------------------------------------------------------------------
(* Specification of the pure function calculateIoU over a grid of boxes *)

\* boxes [x1, y1, x2, y2] with x1 <= x2 and y1 <= y2 (zero-area ones included)
GridBoxes ==
    {<<x1, y1, x2, y2>> : x1 \in 0..GridMax, y1 \in 0..GridMax,
                          x2 \in 0..GridMax, y2 \in 0..GridMax}
    \cap {b \in [1..4 -> 0..GridMax] : b[1] <= b[3] /\ b[2] <= b[4]}

InitIoU ==
    /\ TrackerInit
    /\ argA \in GridBoxes
    /\ argB \in GridBoxes

\* calculateIoU is applied to the second box and another box
ApplyIoU ==
    /\ argA' = argB
    /\ argB' \in GridBoxes
    /\ UNCHANGED <<trackerVars, teleop, appDefects>>

NextIoU == ApplyIoU

SpecIoU == InitIoU /\ [][NextIoU]_vars

-----------------------------------------------------------------------------
(* Specification of the pure function determineSeverity: argA is the        *)
(* confidence it is called with, argB the severity it returns               *)

Confidences == 0..MaxConfidence

InitSeverity ==
    /\ TrackerInit
    /\ argA \in Confidences
    /\ argB = determineSeverity(argA)

\* determineSeverity is called with another confidence
ApplySeverity ==
    /\ argA' \in Confidences
    /\ argB' = determineSeverity(argA')
    /\ UNCHANGED <<trackerVars, teleop, appDefects>>

NextSeverity == ApplySeverity

SpecSeverity == InitSeverity /\ [][NextSeverity]_vars

-----------------------------------------------------------------------------
(* Properties of determineSeverity, under SpecSeverity *)

\* C11: the severity depends on the confidence alone, with strict thresholds:
\* above 0.9 "critical", else above 0.8 "high", else above 0.7 "medium", else
\* "low"; exactly 0.9 is "high", exactly 0.8 "medium", exactly 0.7 "low"
C11_SeverityStrictThresholds ==
    /\ (argA > 900) <=> (argB = "critical")
    /\ (argA > 800 /\ argA <= 900) <=> (argB = "high")
    /\ (argA > 700 /\ argA <= 800) <=> (argB = "medium")
    /\ (argA <= 700) <=> (argB = "low")

\* a confidence of exactly 0.9 has been given the severity "high"
C11_Witness ==
    argA = 900 /\ argB = "high"

-----------------------------------------------------------------------------
(* Properties of calculateIoU, under SpecIoU *)

One == [num |-> 1, den |-> 1]

PositiveArea(b) == b[1] < b[3] /\ b[2] < b[4]
ZeroArea(b) == b[1] = b[3] \/ b[2] = b[4]

\* the two boxes share interior points
Overlap(a, b) ==
    /\ Max(a[1], b[1]) < Min(a[3], b[3])
    /\ Max(a[2], b[2]) < Min(a[4], b[4])

\* C9: for positive-area boxes A and B on the grid, iou(A,B) = iou(B,A),
\* 0 <= iou(A,B) <= 1, iou(A,A) = 1, and iou(A,B) = 0 when A and B do not overlap
C9_IoUSymmetricBoundedReflexive ==
    (PositiveArea(argA) /\ PositiveArea(argB)) =>
        /\ EqNum(calculateIoU(argA, argB), calculateIoU(argB, argA))
        /\ IsFiniteNumber(calculateIoU(argA, argB))
        /\ ~Gt(Zero, calculateIoU(argA, argB))
        /\ ~Gt(calculateIoU(argA, argB), One)
        /\ EqInt(calculateIoU(argA, argA), 1)
        /\ (~Overlap(argA, argB) => EqInt(calculateIoU(argA, argB), 0))

\* two different positive-area boxes that overlap partly: 0 < iou < 1
C9_Witness ==
    /\ PositiveArea(argA)
    /\ PositiveArea(argB)
    /\ argA # argB
    /\ Gt(calculateIoU(argA, argB), Zero)
    /\ Gt(One, calculateIoU(argA, argB))

\* C10: when one or both boxes have zero area, iou is the number 0 (never the
\* result of dividing by a zero union)
C10_ZeroAreaIoUIsZero ==
    (ZeroArea(argA) \/ ZeroArea(argB)) => EqInt(calculateIoU(argA, argB), 0)

-----------------------------------------------------------------------------
(* Properties of the tracker and the promoter, under Spec *)

\* the box overlaps the box of a promoted track by an IoU above 1/2
OverlapsPromoted(box, processed) ==
    \E k \in 1..Len(processed) :
        LET r == calculateIoU(box, processed[k])
        IN  r.den > 0 /\ 2 * r.num > r.den

\* C1: every newly created track has an id strictly greater than the id of
\* every track created before it (objs lists the tracks in creation order)
C1_TrackIdsStrictlyIncreasing ==
    \A i, j \in 1..Len(objs) : i < j => objs[i].id < objs[j].id

\* C2: in every update cycle no detection is matched to more than one track
\* and no track is matched to more than one detection
C2_MatchingOneToOne ==
    cycle.kind = "update" =>
        \A m, n \in 1..Len(cycle.matches) :
            m # n => /\ cycle.matches[m][1] # cycle.matches[n][1]
                     /\ cycle.matches[m][2] # cycle.matches[n][2]

\* an update that matched two detections, to two tracks
C2_Witness ==
    cycle.kind = "update" /\ Len(cycle.matches) = 2

\* C3: the defect store never holds two defects derived from the same track
C3_AtMostOneDefectPerTrack ==
    \A m, n \in 1..Len(defectFrom) : m # n => defectFrom[m] # defectFrom[n]

\* a promoted track is matched again once the cooldown has passed, by a
\* detection whose box is no duplicate of a promoted box
C3_Witness ==
    /\ cycle.kind = "update"
    /\ clock - lastAddTime >= COOLDOWN_MS
    /\ \E m \in 1..Len(cycle.matches) :
          /\ cycle.matches[m][2] \in Range(defectFrom)
          /\ ~OverlapsPromoted(cycle.dets[cycle.matches[m][1]], processedFaceBoxes)

\* C4: the cooldown is global: any two defects in the store have timestamps at
\* least COOLDOWN_MS apart, whichever tracks they come from
C4_DefectsCooldownApart ==
    \A m, n \in 1..Len(defects) :
        m < n => defects[n].timestamp - defects[m].timestamp >= COOLDOWN_MS

\* one cycle creates two tracks, the first of which becomes the second defect
\* of the store while the other is suppressed
C4_Witness ==
    /\ cycle.kind = "update"
    /\ Len(cycle.created) = 2
    /\ Len(defects) = 2
    /\ defectFrom[2] = cycle.created[1][2]

\* the created tracks of the update that has just run, as object references
CreatedObjs(c) == {c.created[k][2] : k \in 1..Len(c.created)}

\* some track created earlier in the same cycle than the k-th one was promoted
EarlierPromoted(c, from, k) ==
    \E e \in 1..(k - 1) : c.created[e][2] \in Range(from)

C6_ReappearingDefectIsNew ==
    [][(/\ cycle'.kind = "update"
        /\ Len(cycle'.dets) = 1
        /\ cycle'.dets[1] \in Range(processedFaceBoxes)
        /\ trackedFaces = <<>>
        /\ clock - lastAddTime >= COOLDOWN_MS)
       => /\ Len(cycle'.created) = 1
          /\ \A o \in 1..Len(objs) : objs[o].id # objs'[cycle'.created[1][2]].id
          /\ Len(defects') = Len(defects) + 1]_vars

\* the tracks of a state array that a sweep at time now must keep
RECURSIVE Unexpired(_, _, _)
Unexpired(faces, os, now) ==
    IF faces = <<>> THEN <<>>
    ELSE IF now - os[Head(faces)].lastSeen > FACE_PERSISTENCE_TIMEOUT
         THEN Unexpired(Tail(faces), os, now)
         ELSE <<Head(faces)>> \o Unexpired(Tail(faces), os, now)

\* a step that runs checkFaceTimeout
SweepStep ==
    \/ TimerSweep
    \/ InferenceEmpty
    \/ ListenerFrame /\ clock - lastInferenceTime < THROTTLE_INTERVAL

\* C7: an eviction sweep at time now removes from the tracker state exactly
\* the tracks with now - lastSeen > FACE_PERSISTENCE_TIMEOUT, and every
\* remaining track keeps its id, box, confidence and lastSeen
C7_SweepRemovesExactlyExpired ==
    [][SweepStep =>
         /\ trackedFaces' = Unexpired(trackedFaces, objs, clock)
         /\ \A k \in 1..Len(trackedFaces') :
                objs'[trackedFaces'[k]] = objs[trackedFaces'[k]]]_vars

\* C8: two detections of one update cycle whose IoU is above
\* ANTI_DUP_THRESHOLD never both yield new tracks
C8_OverlappingDetectionsNotBothCreated ==
    cycle.kind = "update" =>
        \A m, n \in 1..Len(cycle.created) :
            m # n => ~Gt(calculateIoU(cycle.dets[cycle.created[m][1]],
                                      cycle.dets[cycle.created[n][1]]),
                         ANTI_DUP_THRESHOLD)

\* an update in which a detection was discarded because it overlaps a
\* detection that has just become a new track, and no earlier track
C8_Witness ==
    /\ cycle.kind = "update"
    /\ cycle.matches = <<>>
    /\ \E d \in cycle.discarded : \E k \in 1..Len(cycle.created) :
          /\ Gt(calculateIoU(cycle.dets[d], cycle.dets[cycle.created[k][1]]),
                ANTI_DUP_THRESHOLD)
          /\ \A f \in 1..Len(trackedFaces) :
                 trackedFaces[f] \in CreatedObjs(cycle)

-----------------------------------------------------------------------------
(* Properties of the defect stores *)

IsPrefix(s, t) == Len(s) <= Len(t) /\ SubSeq(t, 1, Len(s)) = s

\* the store of the data context alone is append-only (under Spec)
PromotedDefectsAppendOnly ==
    [][IsPrefix(defects, defects')]_vars

\* C12: the defect stores are append-only: every snapshot is a prefix of every
\* later one, so no stored defect is ever modified, replaced or removed
C12_StoreAppendOnly ==
    [][IsPrefix(defects, defects') /\ IsPrefix(appDefects, appDefects')]_vars

\* C13: no two defects in the store have the same id
C13_DefectIdsUnique ==
    \A m, n \in 1..Len(defects) : m # n => defects[m].id # defects[n].id

\* C14: a detection whose box has no positive area (x2 <= x1 or y2 <= y1) is
\* dropped before the tracker: no tracked object has such a box, and no defect
\* was made from one
C14_NoMalformedBoxTrackedOrPromoted ==
    /\ \A k \in 1..Len(trackedFaces) : PositiveArea(objs[trackedFaces[k]].box)
    /\ \A k \in 1..Len(processedFaceBoxes) : PositiveArea(processedFaceBoxes[k])

\* C15: sweeps and updates never interleave on the track list: a sweep works
\* on the list as it stands, so a track it drops from the tracker state has
\* not been seen for more than FACE_PERSISTENCE_TIMEOUT
C15_SweepDropsOnlyExpired ==
    [][SweepStep =>
         \A k \in 1..Len(trackedFaces) :
             trackedFaces[k] \notin Range(trackedFaces') =>
                 clock - objs[trackedFaces[k]].lastSeen > FACE_PERSISTENCE_TIMEOUT]_vars

\* the objects the defects appended by this step were made from
NewDefectSources == {defectFrom'[k] : k \in (Len(defectFrom) + 1)..Len(defectFrom')}

\* C16: a detection matched to an existing track never adds a defect: every
\* defect an update appends comes from a track of its created list, none from
\* a matched track, and an update that creates no track appends nothing
C16_MatchedDetectionAddsNoDefect ==
    [][cycle'.kind = "update" =>
         /\ NewDefectSources \subseteq CreatedObjs(cycle')
         /\ \A m \in 1..Len(cycle'.matches) :
                cycle'.matches[m][2] \notin NewDefectSources
         /\ (cycle'.created = <<>> => defects' = defects)]_vars

\* an update that only matched, at a time when the cooldown had passed and
\* with a detection whose box is no duplicate of a promoted box
C16_Witness ==
    /\ cycle.kind = "update"
    /\ cycle.created = <<>>
    /\ cycle.discarded = {}
    /\ clock - lastAddTime >= COOLDOWN_MS
    /\ \E m \in 1..Len(cycle.matches) :
          ~OverlapsPromoted(cycle.dets[cycle.matches[m][1]], processedFaceBoxes)

\* C17: there is no retry: a track that exists and has not been promoted (its
\* promotion was suppressed when it was created) is not promoted by any later
\* step; a track is the object, whatever id it carries
C17_SuppressedTrackNeverPromoted ==
    [][\A o \in 1..Len(objs) :
           o \notin Range(defectFrom) => o \notin Range(defectFrom')]_vars

\* a track created with the box B4 while the cooldown ran (no promoted box is
\* a duplicate of B4) is matched again once the cooldown has passed, and is
\* still without a defect
C17_Witness ==
    /\ cycle.kind = "update"
    /\ clock - lastAddTime >= COOLDOWN_MS
    /\ B4 \notin Range(processedFaceBoxes)
    /\ \E m \in 1..Len(cycle.matches) :
          /\ cycle.dets[cycle.matches[m][1]] = B4
          /\ cycle.matches[m][2] \notin Range(defectFrom)

-----------------------------------------------------------------------------
(* Properties of the matching pass, under SpecMatch *)

\* the tracks consumed by the detections before the n-th of the cycle
ConsumedBefore(c, n) ==
    {c.matches[m][2] : m \in {k \in 1..Len(c.matches) : c.matches[k][1] < n}}

\* the track the n-th detection of the cycle was matched to, 0 when none
MatchOf(c, n) ==
    IF \E m \in 1..Len(c.matches) : c.matches[m][1] = n
    THEN (CHOOSE p \in Range(c.matches) : p[1] = n)[2]
    ELSE 0

\* the IoU of two boxes is greater than 1/10
AboveMatchThreshold(a, b) ==
    LET r == calculateIoU(a, b) IN r.den > 0 /\ 10 * r.num > r.den

\* the IoU of a with b is greater than the IoU of a with c
CloserTo(a, b, c) ==
    LET r == calculateIoU(a, b)
        q == calculateIoU(a, c)
    IN  r.den > 0 /\ q.den > 0 /\ r.num * q.den > q.num * r.den

\* the matches of the cycle are the greedy ones for the track list faces and
\* the boxes the tracks had in os before the update
GreedyMatches(c, faces, os) ==
    \A n \in 1..Len(c.dets) :
        LET candidates == Range(faces) \ ConsumedBefore(c, n)
            o == MatchOf(c, n)
        IN  IF o # 0
            THEN /\ o \in candidates
                 /\ AboveMatchThreshold(c.dets[n], os[o].box)
                 /\ \A t \in candidates : ~CloserTo(c.dets[n], os[t].box, os[o].box)
            ELSE \A t \in candidates : ~AboveMatchThreshold(c.dets[n], os[t].box)

\* C18: each detection, in input order, is matched to a track of maximum IoU
\* among the tracks of the list the update works on that earlier detections
\* of the cycle have not consumed, and only when that IoU is strictly greater
\* than MATCH_THRESHOLD; otherwise it is matched to none
C18_MatchIsBestAboveThreshold ==
    [][cycle'.kind = "update" =>
         \A i \in 1..Len(inflight) :
             inflight' = Remove(inflight, i) =>
                 GreedyMatches(cycle', inflight[i].faces, objs)]_vars

\* a detection was matched to a track although a track earlier in the list,
\* not matched in this cycle, also overlaps it by more than MATCH_THRESHOLD
C18_Witness ==
    /\ cycle.kind = "update"
    /\ \E m \in 1..Len(cycle.matches) :
          \E j, k \in 1..Len(trackedFaces) :
              /\ j < k
              /\ trackedFaces[k] = cycle.matches[m][2]
              /\ trackedFaces[j] \notin CreatedObjs(cycle)
              /\ \A n \in 1..Len(cycle.matches) : cycle.matches[n][2] # trackedFaces[j]
              /\ AboveMatchThreshold(cycle.dets[cycle.matches[m][1]],
                                     objs[trackedFaces[j]].box)

\* a detection was matched to no track although a track not matched in this
\* cycle overlaps it by exactly MATCH_THRESHOLD
ThresholdCaseReached ==
    /\ cycle.kind = "update"
    /\ \E n \in 1..Len(cycle.dets) : \E j \in 1..Len(trackedFaces) :
          /\ MatchOf(cycle, n) = 0
          /\ trackedFaces[j] \notin CreatedObjs(cycle)
          /\ \A m \in 1..Len(cycle.matches) : cycle.matches[m][2] # trackedFaces[j]
          /\ EqNum(calculateIoU(cycle.dets[n], objs[trackedFaces[j]].box),
                   MATCH_THRESHOLD)

\* the IoU of a with b equals the IoU of a with c
EquallyClose(a, b, c) ==
    LET r == calculateIoU(a, b)
        q == calculateIoU(a, c)
    IN  r.den > 0 /\ q.den > 0 /\ r.num * q.den = q.num * r.den

\* among the tracks tied with the matched one, the matched one has the lowest id
LowestIdOfTied(c, faces, os) ==
    \A n \in 1..Len(c.dets) :
        LET candidates == Range(faces) \ ConsumedBefore(c, n)
            o == MatchOf(c, n)
        IN  o # 0 =>
                \A t \in candidates :
                    EquallyClose(c.dets[n], os[t].box, os[o].box) => os[o].id <= os[t].id

\* C19: when several tracks not yet matched in the cycle have the same maximal
\* IoU with a detection, the detection is matched to the one with the lowest id
C19_TieGoesToLowestId ==
    [][cycle'.kind = "update" =>
         \A i \in 1..Len(inflight) :
             inflight' = Remove(inflight, i) =>
                 LowestIdOfTied(cycle', inflight[i].faces, objs)]_vars

\* the objects matched in the cycle
MatchedObjs(c) == {c.matches[k][2] : k \in 1..Len(c.matches)}

\* C20: a matched track keeps its id, takes the box and the confidence of the
\* detection (the fifth component of the box) and has lastSeen set to now;
\* every other track of the list the update leaves keeps all its fields
C20_MatchOverwritesOnlyTheMatchedTrack ==
    [][cycle'.kind = "update" =>
         /\ \A m \in 1..Len(cycle'.matches) :
                LET o == cycle'.matches[m][2]
                IN  /\ objs'[o].id = objs[o].id
                    /\ objs'[o].box = cycle'.dets[cycle'.matches[m][1]]
                    /\ objs'[o].lastSeen = clock
         /\ \A k \in 1..Len(trackedFaces') :
                LET t == trackedFaces'[k]
                IN  (t \notin MatchedObjs(cycle') /\ t \notin CreatedObjs(cycle')) =>
                        objs'[t] = objs[t]]_vars

\* an update matched one track, seen now, and left another, last seen earlier
C20_Witness ==
    /\ cycle.kind = "update"
    /\ \E m \in 1..Len(cycle.matches) :
          /\ objs[cycle.matches[m][2]].lastSeen = clock
          /\ objs[cycle.matches[m][2]].box = cycle.dets[cycle.matches[m][1]]
    /\ \E k \in 1..Len(trackedFaces) :
          /\ trackedFaces[k] \notin MatchedObjs(cycle)
          /\ trackedFaces[k] \notin CreatedObjs(cycle)
          /\ objs[trackedFaces[k]].lastSeen < clock

-----------------------------------------------------------------------------
(* Properties of the creation pass, under Spec *)

\* the IoU of two boxes is greater than 1/20
AboveAntiDupThreshold(a, b) ==
    LET r == calculateIoU(a, b) IN r.den > 0 /\ 20 * r.num > r.den

\* the n-th detection of the cycle was matched to no track
Unmatched(c, n) == \A m \in 1..Len(c.matches) : c.matches[m][1] # n

\* the tracks created for the n-th detection of the cycle
CreatedFor(c, n) == {k \in 1..Len(c.created) : c.created[k][1] = n}

\* the tracks created for the detections before the n-th of the cycle
CreatedBefore(c, n) ==
    {c.created[k][2] : k \in {j \in 1..Len(c.created) : c.created[j][1] < n}}

\* exactly one new track was created for the n-th detection, with its box
\* and lastSeen = now
CreatedOne(c, n, os, osAfter, now) ==
    /\ Cardinality(CreatedFor(c, n)) = 1
    /\ \A k \in CreatedFor(c, n) :
           /\ c.created[k][2] > Len(os)
           /\ osAfter[c.created[k][2]].box = c.dets[n]
           /\ osAfter[c.created[k][2]].lastSeen = now

\* C21 as stated: an unmatched detection is discarded when its IoU with a
\* track of the start of the cycle (faces, with the boxes of os) is above
\* ANTI_DUP_THRESHOLD, and creates exactly one new track otherwise
CreationAgainstInitialTracks(c, faces, os, osAfter, now) ==
    \A n \in 1..Len(c.dets) :
        Unmatched(c, n) =>
            IF \E t \in Range(faces) : AboveAntiDupThreshold(c.dets[n], os[t].box)
            THEN CreatedFor(c, n) = {}
            ELSE CreatedOne(c, n, os, osAfter, now)

C21_CreationAgainstTracksAtCycleStart ==
    [][cycle'.kind = "update" =>
         \A i \in 1..Len(inflight) :
             inflight' = Remove(inflight, i) =>
                 CreationAgainstInitialTracks(cycle', inflight[i].faces, objs,
                                              objs', clock)]_vars

\* C21 amended: an unmatched detection is discarded when its IoU with a track
\* of the list as it stands is above ANTI_DUP_THRESHOLD, the list being the
\* tracks of the start of the cycle with the boxes this cycle's matches gave
\* them and the tracks created for earlier detections of the cycle; it
\* creates exactly one new track otherwise
CreationAgainstCurrentTracks(c, faces, os, osAfter, now) ==
    \A n \in 1..Len(c.dets) :
        Unmatched(c, n) =>
            IF \E t \in Range(faces) \cup CreatedBefore(c, n) :
                   AboveAntiDupThreshold(c.dets[n], osAfter[t].box)
            THEN CreatedFor(c, n) = {}
            ELSE CreatedOne(c, n, os, osAfter, now)

C21_CreationAgainstTracksAsTheyStand ==
    [][cycle'.kind = "update" =>
         \A i \in 1..Len(inflight) :
             inflight' = Remove(inflight, i) =>
                 CreationAgainstCurrentTracks(cycle', inflight[i].faces, objs,
                                              objs', clock)]_vars

\* a detection was discarded because it overlaps the box a match of this
\* cycle has just given to a track
C21_Witness ==
    /\ cycle.kind = "update"
    /\ \E d \in cycle.discarded : \E m \in 1..Len(cycle.matches) :
          AboveAntiDupThreshold(cycle.dets[d], cycle.dets[cycle.matches[m][1]])

-----------------------------------------------------------------------------
(* Eviction over unbounded time, under SpecLive *)

\* the object is a track of the tracker state
Tracked(o) == o \in Range(trackedFaces)

\* C22: with the eviction interval firing fairly, a track that is not matched
\* again is eventually removed from the tracker state, whatever updates go on
C22_UnmatchedTrackEventuallyRemoved ==
    \A o \in 1..MaxAlloc :
        (Tracked(o) /\ objs[o].lastSeen < clock)
            ~> (~Tracked(o) \/ objs[o].lastSeen = clock)

\* a sweep has just removed a timed-out track that the listener's closure
\* still holds, and has kept a track that an update refreshed since
C22_Witness ==
    /\ cycle.kind = "none"
    /\ timerNext = clock + TIMER_INTERVAL
    /\ \E o \in Range(sub.faces) :
           /\ ~Tracked(o)
           /\ clock - objs[o].lastSeen > FACE_PERSISTENCE_TIMEOUT
    /\ \E p \in Range(trackedFaces) :
           clock - objs[p].lastSeen <= THROTTLE_INTERVAL

-----------------------------------------------------------------------------
(* Properties of matching and eviction over time, under Spec *)

\* C23: an update never matches a detection to a track that has gone unseen
\* for longer than FACE_PERSISTENCE_TIMEOUT
C23_NoMatchToTimedOutTrack ==
    [][cycle'.kind = "update" =>
          \A m \in 1..Len(cycle'.matches) :
              clock - objs[cycle'.matches[m][2]].lastSeen
                  <= FACE_PERSISTENCE_TIMEOUT]_vars

\* the ids of the tracks of a state array
IdsOf(faces, os) == {os[t].id : t \in Range(faces)}

\* C24: once a sweep has removed a timed-out track, no update and no sweep
\* puts a track with its id back into the tracker state
C24_EvictedIdNeverComesBack ==
    [][\A id \in evicted :
          id \in IdsOf(trackedFaces', objs') => id \in IdsOf(trackedFaces, objs)]_vars

-----------------------------------------------------------------------------
(* Overlapping cycles, under SpecOverlap *)

\* C25: at most one inference -> update -> promotion cycle is in progress at
\* any time
C25_AtMostOneCycleInFlight == Len(inflight) <= 1

-----------------------------------------------------------------------------
(* Properties of the promoter, under Spec *)

\* the created tracks of the cycle that pass both gates of the promoter as
\* the promoter stands when the cycle begins
Promotable(c) ==
    {k \in 1..Len(c.created) :
        /\ clock - lastAddTime >= COOLDOWN_MS
        /\ ~OverlapsPromoted(c.dets[c.created[k][1]], processedFaceBoxes)}

\* the least element of a non-empty set of numbers
Least(S) == CHOOSE k \in S : \A j \in S : k <= j

\* C26: a successful promotion appends exactly one defect, records the box
\* and sets the time of the last promotion to now; an attempt rejected by the
\* cooldown or by the duplicate check changes none of the three (so a cycle
\* changes them by its first promotable track alone: the attempts before it
\* are rejected, the ones after it fall within the cooldown)
C26_PromotionAppendsOneRejectionChangesNothing ==
    [][cycle'.kind = "update" =>
          IF Promotable(cycle') = {}
          THEN /\ defects' = defects
               /\ lastAddTime' = lastAddTime
               /\ processedFaceBoxes' = processedFaceBoxes
          ELSE /\ Len(defects') = Len(defects) + 1
               /\ IsPrefix(defects, defects')
               /\ lastAddTime' = clock
               /\ processedFaceBoxes' =
                      Append(processedFaceBoxes,
                             cycle'.dets[cycle'.created[Least(Promotable(cycle'))][1]])]_vars

\* an update has created two tracks and promoted one of them
C26_Witness ==
    /\ cycle.kind = "update"
    /\ Len(cycle.created) = 2
    /\ Len(defects) >= 1
    /\ defects[Len(defects)].timestamp = clock
    /\ lastAddTime = clock

\* C27: a created track whose box overlaps the box of a track promoted before
\* by an IoU above 1/2 is not promoted, the promoted boxes are never
\* forgotten, and no two defects come from boxes with an IoU above 1/2
C27_NoDefectFromDuplicateBox ==
    [][/\ IsPrefix(processedFaceBoxes, processedFaceBoxes')
       /\ Len(defects') = Len(processedFaceBoxes')
       /\ \A j \in 1..Len(processedFaceBoxes') :
              ~OverlapsPromoted(processedFaceBoxes'[j],
                                SubSeq(processedFaceBoxes', 1, j - 1))
       /\ cycle'.kind = "update" =>
              \A k \in 1..Len(cycle'.created) :
                  OverlapsPromoted(cycle'.dets[cycle'.created[k][1]], processedFaceBoxes)
                      => cycle'.created[k][2] \notin Range(defectFrom')]_vars

\* with the cooldown over, an update has created a track on a promoted box
\* whose own track has left the tracker state, and has promoted nothing
C27_Witness ==
    /\ cycle.kind = "update"
    /\ clock - lastAddTime >= COOLDOWN_MS
    /\ \E k \in 1..Len(cycle.created) : \E j \in 1..Len(processedFaceBoxes) :
           /\ OverlapsPromoted(cycle.dets[cycle.created[k][1]],
                               <<processedFaceBoxes[j]>>)
           /\ defectFrom[j] \notin Range(trackedFaces)
           /\ cycle.created[k][2] \notin Range(defectFrom)

\* the promoter after the created tracks of the cycle, from the k-th on, have
\* been handed to it one by one at time now
RECURSIVE HandedInOrder(_, _, _, _, _)
HandedInOrder(k, c, os, now, p) ==
    IF k > Len(c.created) THEN p
    ELSE HandedInOrder(k + 1, c, os, now,
                       addDefect(p, c.created[k][2], os[c.created[k][2]], now))

C29_PositionIsBoxCentre ==
    \A j \in 1..Len(defects) :
        /\ 2 * defects[j].position.x = processedFaceBoxes[j][1] + processedFaceBoxes[j][3]
        /\ 2 * defects[j].position.y = processedFaceBoxes[j][2] + processedFaceBoxes[j][4]

-----------------------------------------------------------------------------
(* The first promotion, under SpecEpoch *)

\* C30: the first track created in a session is promoted, whatever the time
C30_FirstCreatedTrackPromoted ==
    [][(objs = <<>> /\ cycle'.kind = "update" /\ cycle'.created # <<>>)
          => cycle'.created[1][2] \in Range(defectFrom')]_vars

-----------------------------------------------------------------------------
(* processYoloOutput of SewerDetection: outputData is the flat tensor, with *)
(* box coordinates in pixels and confidences in tenths; the detections it   *)
(* builds have their corners in half pixels (x - w / 2 is 2x - w halves)    *)
(* and their score in hundredths.  argA is the tensor [data, shape], argB   *)
(* the detections.                                                          *)

\* rows of a tensor, classes of a row
MaxRows == 2
MaxClasses == 2

\* THRESHOLD of SewerDetection, 0.25, in hundredths
SEWER_THRESHOLD == 25

\* faulty variant of MaxClassFrom: the last of the equally probable classes
RECURSIVE MaxClassFromLast(_, _, _, _, _, _)
MaxClassFromLast(c, outputData, offset, numClasses, maxClassProb, maxClassIdx) ==
    IF c >= numClasses THEN <<maxClassProb, maxClassIdx>>
    ELSE LET classProb == outputData[offset + 5 + c + 1]
         IN  IF classProb >= maxClassProb
             THEN MaxClassFromLast(c + 1, outputData, offset, numClasses, classProb, c)
             ELSE MaxClassFromLast(c + 1, outputData, offset, numClasses,
                                   maxClassProb, maxClassIdx)

\* the loop over the classes from c on: <<maxClassProb, maxClassIdx>>
RECURSIVE MaxClassFrom(_, _, _, _, _, _)
MaxClassFrom(c, outputData, offset, numClasses, maxClassProb, maxClassIdx) ==
    IF c >= numClasses THEN <<maxClassProb, maxClassIdx>>
    ELSE LET classProb == outputData[offset + 5 + c + 1]
         IN  IF classProb > maxClassProb
             THEN MaxClassFrom(c + 1, outputData, offset, numClasses, classProb, c)
             ELSE MaxClassFrom(c + 1, outputData, offset, numClasses,
                               maxClassProb, maxClassIdx)

\* the loop over the detections from i on
RECURSIVE YoloRowsFrom(_, _, _, _, _)
YoloRowsFrom(i, outputData, numDetections, boxDataLength, detections) ==
    IF i >= numDetections THEN detections
    ELSE LET offset == i * boxDataLength
             x == outputData[offset + 1]
             y == outputData[offset + 2]
             w == outputData[offset + 3]
             h == outputData[offset + 4]
             confidence == outputData[offset + 5]
             best == MaxClassFrom(0, outputData, offset, boxDataLength - 5, 0, 0)
             score == confidence * best[1]
         IN  YoloRowsFrom(i + 1, outputData, numDetections, boxDataLength,
                 IF score > SEWER_THRESHOLD
                 THEN Append(detections,
                             <<2 * x - w, 2 * y - h, 2 * x + w, 2 * y + h, score, best[2]>>)
                 ELSE detections)

\* the detections processYoloOutput hands on: only a tensor of three
\* dimensions is read
processYoloOutput(outputData, outputShape) ==
    IF Len(outputShape) = 3
    THEN YoloRowsFrom(0, outputData, outputShape[2], outputShape[3], <<>>)
    ELSE <<>>

\* the rows of a tensor with numClasses classes
YoloRows(numClasses) ==
    {<<x, 3, w, 1, confidence>> \o probs :
        x \in {2}, w \in {1, 2}, confidence \in {5, 10},
        probs \in [1..numClasses -> {0, 5, 10}]}

RECURSIVE Flatten(_)
Flatten(rows) == IF rows = <<>> THEN <<>> ELSE Head(rows) \o Flatten(Tail(rows))

\* the tensors: up to MaxRows rows of up to MaxClasses classes, in the
\* layout [batch, num_boxes, box_data] or [num_boxes, box_data]
YoloTensors ==
    UNION {UNION {{[data |-> Flatten(rows), shape |-> <<1, Len(rows), 5 + nc>>],
                   [data |-> Flatten(rows), shape |-> <<Len(rows), 5 + nc>>]} :
                  rows \in SeqsUpTo(YoloRows(nc), MaxRows)} :
           nc \in 0..MaxClasses}

InitYolo ==
    /\ TrackerInit
    /\ argA \in YoloTensors
    /\ argB = processYoloOutput(argA.data, argA.shape)

\* an inference resolves with another tensor
ApplyYolo ==
    /\ argA' \in YoloTensors
    /\ argB' = processYoloOutput(argA'.data, argA'.shape)
    /\ UNCHANGED <<trackerVars, teleop, appDefects>>

NextYolo == ApplyYolo

SpecYolo == InitYolo /\ [][NextYolo]_vars

-----------------------------------------------------------------------------
(* Properties of processYoloOutput, under SpecYolo *)

\* the i-th row (from 0) of a tensor of three dimensions
RowOf(t, i) == SubSeq(t.data, i * t.shape[3] + 1, (i + 1) * t.shape[3])

\* the class probabilities of a row
ProbsOf(row) == SubSeq(row, 6, Len(row))

\* the highest class probability of a row, 0 for a row without classes
HighestProb(row) ==
    IF Len(row) = 5 THEN 0
    ELSE CHOOSE p \in Range(ProbsOf(row)) : \A q \in Range(ProbsOf(row)) : q <= p

\* the lowest index (from 0) among the classes with the highest probability,
\* 0 when no class probability is positive
LowestBestClass(row) ==
    IF HighestProb(row) <= 0 THEN 0
    ELSE (CHOOSE c \in 1..Len(ProbsOf(row)) :
             /\ ProbsOf(row)[c] = HighestProb(row)
             /\ \A d \in 1..(c - 1) : ProbsOf(row)[d] # HighestProb(row)) - 1

\* the rows of the tensor whose score is above the threshold, in order
EmittedRows(t) ==
    SelectSeq([i \in 1..t.shape[2] |-> RowOf(t, i - 1)],
              LAMBDA row : row[5] * HighestProb(row) > 25)

\* C31: of a tensor [batch, num_boxes, box_data], the normalizer emits a
\* detection for a row exactly when its score, the confidence times the
\* highest class probability, is strictly above 0.25; the detection has the
\* corners [cx - w/2, cy - h/2, cx + w/2, cy + h/2], that score, and the
\* lowest index among the classes with the highest probability
C31_NormalizerEmitsRowsAboveThreshold ==
    Len(argA.shape) = 3 =>
        /\ Len(argB) = Len(EmittedRows(argA))
        /\ \A k \in 1..Len(argB) :
               LET row == EmittedRows(argA)[k]
               IN  /\ argB[k][1] = 2 * row[1] - row[3]
                   /\ argB[k][2] = 2 * row[2] - row[4]
                   /\ argB[k][3] = 2 * row[1] + row[3]
                   /\ argB[k][4] = 2 * row[2] + row[4]
                   /\ argB[k][5] = row[5] * HighestProb(row)
                   /\ argB[k][6] = LowestBestClass(row)

\* a tensor of two rows: one with a score of exactly 0.25, which is left
\* out, and one with two equally probable classes, which is emitted
C31_Witness ==
    /\ Len(argA.shape) = 3
    /\ argA.shape[2] = 2
    /\ argA.shape[3] = 7
    /\ RowOf(argA, 0)[5] * HighestProb(RowOf(argA, 0)) = 25
    /\ RowOf(argA, 1)[6] = RowOf(argA, 1)[7]
    /\ Len(argB) = 1
    /\ argB[1][6] = 0

-----------------------------------------------------------------------------
(* Properties of the throttle, under Spec *)

\* C32 as stated: inference starts, and therefore update cycles, are at
\* least THROTTLE_INTERVAL apart (lastSeen is written by updates alone, so an
\* update finds no track seen less than THROTTLE_INTERVAL ago), and a frame
\* within THROTTLE_INTERVAL of the last start starts nothing
C32_StartsAndUpdatesThrottled ==
    [][/\ Len(inflight') > Len(inflight) => clock - lastInferenceTime >= THROTTLE_INTERVAL
       /\ cycle'.kind = "update" =>
              \A o \in 1..Len(objs) : clock - objs[o].lastSeen >= THROTTLE_INTERVAL]_vars

\* the step starts no inference and creates, matches and promotes nothing:
\* no object is allocated or written (a collected one is cleared)
NothingButEviction ==
    /\ inflight' = inflight
    /\ lastInferenceTime' = lastInferenceTime
    /\ cycle'.kind # "update"
    /\ nextId' = nextId
    /\ Len(objs') = Len(objs)
    /\ \A o \in 1..Len(objs) : objs'[o] = objs[o] \/ objs'[o].box = <<>>
    /\ defects' = defects
    /\ processedFaceBoxes' = processedFaceBoxes
    /\ lastAddTime' = lastAddTime

\* C32, amended: inference starts are at least THROTTLE_INTERVAL apart and
\* each update ends one started inference; within THROTTLE_INTERVAL of the
\* last start, a step that ends no inference and is not the passing of time
\* (a frame, the interval, the listener effect) starts no inference and
\* creates, matches and promotes nothing
C32_StartsThrottled ==
    [][/\ Len(inflight') > Len(inflight) =>
              /\ clock - lastInferenceTime >= THROTTLE_INTERVAL
              /\ lastInferenceTime' = clock
       /\ cycle'.kind = "update" => Len(inflight') = Len(inflight) - 1
       /\ (/\ clock' = clock
           /\ clock - lastInferenceTime < THROTTLE_INTERVAL
           /\ Len(inflight') >= Len(inflight)) => NothingButEviction]_vars

\* within THROTTLE_INTERVAL of the last start, with its inference over, a
\* sweep has evicted a timed-out track and restarted the interval
C32_Witness ==
    /\ sub.active
    /\ clock - lastInferenceTime < THROTTLE_INTERVAL
    /\ inflight = <<>>
    /\ cycle.kind = "none"
    /\ evicted # {}
    /\ timerNext = clock + TIMER_INTERVAL

-----------------------------------------------------------------------------
(* The outcomes of the detections of a cycle, under Spec *)

\* the number of outcomes the n-th detection of the cycle has had
Outcomes(c, n) ==
    Cardinality({m \in 1..Len(c.matches) : c.matches[m][1] = n})
        + Cardinality({k \in 1..Len(c.created) : c.created[k][1] = n})
        + (IF n \in c.discarded THEN 1 ELSE 0)

\* C33: in every update each detection is matched to a track that existed
\* when the cycle began, or made a new track, or discarded, and only one of
\* the three; no detection is matched to a track created in the same cycle
C33_OneOutcomePerDetection ==
    [][cycle'.kind = "update" =>
          /\ \A n \in 1..Len(cycle'.dets) : Outcomes(cycle', n) = 1
          /\ \A i \in 1..Len(inflight) : inflight' = Remove(inflight, i) =>
                 MatchedObjs(cycle') \subseteq Range(inflight[i].faces)
          /\ \A o \in MatchedObjs(cycle') : o <= Len(objs)
          /\ \A o \in CreatedObjs(cycle') : o > Len(objs)
          /\ MatchedObjs(cycle') \cap CreatedObjs(cycle') = {}]_vars

\* an update of two detections has matched one and discarded the other
C33_Witness ==
    /\ cycle.kind = "update"
    /\ Len(cycle.dets) = 2
    /\ Len(cycle.matches) = 1
    /\ Cardinality(cycle.discarded) = 1
    /\ cycle.created = <<>>

-----------------------------------------------------------------------------
(* Properties of the defects behind the score filter, under SpecScore *)

\* C34: every defect of the store has a confidence above 70 (percent, here
\* in thousandths of a percent) and the severity "medium", "high" or
\* "critical"; "low" is never produced
C34_NoLowSeverityDefect ==
    \A j \in 1..Len(defects) :
        /\ defects[j].confidence > 70 * 1000
        /\ defects[j].severity \in {"medium", "high", "critical"}

\* the store holds a defect of severity "medium", from a box whose score is
\* just above the threshold, and a defect of a higher severity
C34_Witness ==
    /\ \E j \in 1..Len(defects) : defects[j].severity = "medium"
    /\ \E j \in 1..Len(defects) : defects[j].severity = "critical"

-----------------------------------------------------------------------------
(* The teleoperation component Input: keyboard handlers, the emergency stop,
   the 100 ms publish interval and the speed effect.

   teleop holds the component: its React state (direction, eStopActive, the
   three speeds), its props (ros: the Ros object exists; connection), the
   live window intervals as the render closures their callbacks captured
   (timers), intervalRef.current as an index into timers (0 = null), the
   number of pending setTimeout stop commands, whether the passive effects
   of a non-discrete render are still to run, and the Twist messages the
   last step published, as <<linear.x, angular.z>> in tenths.

   The key handlers are registered once, by an effect with no dependencies,
   so they are the functions of the first render; toggleEStop is bound to
   the button on every render.  A keyboard or click event renders and runs
   its effects before any timer callback can run; a change of the props
   coming from the websocket commits first and runs its effects later. *)

MaxPendingStops == 4

maxSpeed == 4

DirectionKeys == {"i", "j", "k"}
SpeedKeys == {"q", "z", "x", "c"}
Keys == {" "} \cup DirectionKeys \cup SpeedKeys

ZeroTwist == <<0, 0>>

\* the closure of a render: the props and state its functions read
RenderOf(t) ==
    [ros |-> t.ros, connection |-> t.connection,
     eStopActive |-> t.eStopActive, direction |-> t.direction,
     overallSpeed |-> t.overallSpeed, linearSpeed |-> t.linearSpeed,
     angularSpeed |-> t.angularSpeed]

\* the render whose handleKeyDown and handleKeyUp stay registered
MountRender == RenderOf(InputMounted)

\* cmdVelPublisher of a render
cmdVelPublisher(r) == r.ros

MaxOf(a, b) == IF a > b THEN a ELSE b
MinOf(a, b) == IF a < b THEN a ELSE b

\* the Twist message publishVelocityCommand builds
Twist(r) ==
    LET speedFactor == MaxOf(1, r.overallSpeed)
        currentLinearSpeed == r.linearSpeed * speedFactor
        currentAngularSpeed == r.angularSpeed * speedFactor
    IN  CASE r.direction = "u" -> <<currentLinearSpeed, currentAngularSpeed>>
          [] r.direction = "i" -> <<currentLinearSpeed, 0>>
          [] r.direction = "o" -> <<currentLinearSpeed, -currentAngularSpeed>>
          [] r.direction = "j" -> <<0, currentAngularSpeed>>
          [] r.direction = "k" -> <<0, 0>>
          [] r.direction = "l" -> <<0, -currentAngularSpeed>>
          [] r.direction = "m" -> <<-currentLinearSpeed, currentAngularSpeed>>
          [] r.direction = "," -> <<-currentLinearSpeed, 0>>
          [] r.direction = "." -> <<-currentLinearSpeed, -currentAngularSpeed>>
          [] OTHER -> ZeroTwist

\* faulty variant: publishVelocityCommand without the emergency-stop test
publishVelocityCommandUnguarded(t, r) ==
    IF ~r.ros \/ ~r.connection \/ ~cmdVelPublisher(r) THEN t
    ELSE [t EXCEPT !.published = Append(@, Twist(r))]

\* publishVelocityCommand of render r, on component t
publishVelocityCommand(t, r) ==
    IF ~r.ros \/ ~r.connection \/ ~cmdVelPublisher(r) THEN t
    ELSE IF r.eStopActive THEN t
    ELSE [t EXCEPT !.published = Append(@, Twist(r))]

\* sendStopCommand of render r: one zero command now, two by setTimeout
sendStopCommand(t, r) ==
    IF ~r.ros \/ ~r.connection \/ ~cmdVelPublisher(r) THEN t
    ELSE [t EXCEPT !.published = Append(@, ZeroTwist),
                   !.pendingStops = @ + 2]

\* sendEStopCommand of render r
sendEStopCommand(t, r) ==
    IF ~r.ros \/ ~r.connection \/ ~cmdVelPublisher(r) THEN t
    ELSE [t EXCEPT !.published = Append(@, ZeroTwist),
                   !.pendingStops = @ + 2]

\* clearInterval(intervalRef.current); intervalRef.current = null
ClearInterval(t) ==
    IF t.intervalRef # 0
    THEN [t EXCEPT !.timers = Remove(@, t.intervalRef), !.intervalRef = 0]
    ELSE t

\* faulty variant: the interval effect without the emergency-stop test
IntervalEffectIgnoringEStop(t) ==
    LET cleared == ClearInterval(ClearInterval(t))
    IN  IF cleared.direction # null
        THEN [cleared EXCEPT !.timers = Append(@, RenderOf(cleared)),
                             !.intervalRef = Len(cleared.timers) + 1]
        ELSE sendStopCommand(cleared, RenderOf(cleared))

\* the interval effect of the render t is in, its predecessor's cleanup first
IntervalEffect(t) ==
    LET cleared == ClearInterval(ClearInterval(t))
    IN  IF cleared.eStopActive THEN cleared
        ELSE IF cleared.direction # null
        THEN [cleared EXCEPT !.timers = Append(@, RenderOf(cleared)),
                             !.intervalRef = Len(cleared.timers) + 1]
        ELSE sendStopCommand(cleared, RenderOf(cleared))

\* the speed effect of the render t is in
SpeedEffect(t) ==
    IF t.direction # null THEN publishVelocityCommand(t, RenderOf(t)) ELSE t

\* the effects a render runs, in the order they are declared, for the
\* dependencies that differ from the previous render's
Commit(old, t) ==
    LET a == IF <<t.direction, t.connection, t.ros>>
                    # <<old.direction, old.connection, old.ros>>
             THEN IntervalEffect(t) ELSE t
    IN  IF <<a.linearSpeed, a.angularSpeed, a.overallSpeed>>
              # <<old.linearSpeed, old.angularSpeed, old.overallSpeed>>
        THEN SpeedEffect(a) ELSE a

\* effects left over from a render of new props run before anything else
\* that renders
Flushed(t) ==
    IF t.effectsPending
    THEN IntervalEffect([t EXCEPT !.effectsPending = FALSE])
    ELSE t

\* the component as a step finds it: nothing published yet
Begin(t) == [t EXCEPT !.published = <<>>]

toggleEStop(t) ==
    LET newEStopState == ~RenderOf(t).eStopActive
        s == [t EXCEPT !.eStopActive = newEStopState]
    IN  IF newEStopState
        THEN Commit(t, sendEStopCommand([s EXCEPT !.direction = null],
                                        RenderOf(t)))
        ELSE Commit(t, s)

handleKeyDown(t, key) ==
    IF key = " "
    THEN Commit(t, sendEStopCommand([t EXCEPT !.eStopActive = TRUE,
                                              !.direction = null],
                                    MountRender))
    ELSE IF MountRender.eStopActive THEN t
    ELSE IF key \in {"u", "i", "o", "j", "k", "l", "m", ",", "."}
    THEN Commit(t, [t EXCEPT !.direction = key])
    ELSE IF key = "q"
    THEN Commit(t, [t EXCEPT !.overallSpeed = MinOf(@ + 1, maxSpeed)])
    ELSE IF key = "z"
    THEN Commit(t, [t EXCEPT !.overallSpeed = MaxOf(@ - 1, 0)])
    ELSE IF key = "w"
    THEN Commit(t, [t EXCEPT !.linearSpeed = MinOf(@ + 10, maxSpeed * 10)])
    ELSE IF key = "x"
    THEN Commit(t, [t EXCEPT !.linearSpeed = MaxOf(@ - 10, 1)])
    ELSE IF key = "e"
    THEN Commit(t, [t EXCEPT !.angularSpeed = MinOf(@ + 10, maxSpeed * 10)])
    ELSE IF key = "c"
    THEN Commit(t, [t EXCEPT !.angularSpeed = MaxOf(@ - 10, 1)])
    ELSE t

handleKeyUp(t, key) ==
    IF key = " " /\ MountRender.eStopActive
    THEN Commit(t, [t EXCEPT !.eStopActive = FALSE])
    ELSE IF key \in {"u", "i", "o", "j", "k", "l", "m", ",", "."}
    THEN LET s == [t EXCEPT !.direction = null]
         IN  IF cmdVelPublisher(MountRender) /\ ~MountRender.eStopActive
             THEN Commit(t, [s EXCEPT !.published = Append(@, ZeroTwist)])
             ELSE Commit(t, s)
    ELSE t

\* the component moves to t2; the tracker and the stores are not involved
TeleopStep(t2) ==
    /\ t2.pendingStops <= MaxPendingStops
    /\ teleop' = t2
    /\ UNCHANGED <<trackerVars, argA, argB, appDefects>>

KeyDown ==
    \E key \in Keys :
        TeleopStep(handleKeyDown(Begin(Flushed(teleop)), key))

KeyUp ==
    \E key \in Keys :
        TeleopStep(handleKeyUp(Begin(Flushed(teleop)), key))

EStopClick == TeleopStep(toggleEStop(Begin(Flushed(teleop))))

\* a callback of a live 100 ms interval runs
IntervalTick ==
    \E n \in 1..Len(teleop.timers) :
        TeleopStep(publishVelocityCommand(Begin(teleop), teleop.timers[n]))

\* one of the delayed stop commands runs
StopTimeout ==
    /\ teleop.pendingStops > 0
    /\ TeleopStep([Begin(teleop) EXCEPT !.published = <<ZeroTwist>>,
                                        !.pendingStops = @ - 1])

\* App creates the Ros object: setRos(newRos)
RosCreated ==
    /\ ~teleop.ros
    /\ TeleopStep([Begin(Flushed(teleop)) EXCEPT !.ros = TRUE,
                                                 !.effectsPending = TRUE])

\* the websocket opens or closes: setConnected
ConnectionChange ==
    /\ teleop.ros
    /\ TeleopStep([Begin(Flushed(teleop)) EXCEPT !.connection = ~@,
                                                 !.effectsPending = TRUE])

\* the passive effects of a render of new props run
FlushEffects ==
    /\ teleop.effectsPending
    /\ TeleopStep(Flushed(Begin(teleop)))

NextTeleop ==
    \/ KeyDown
    \/ KeyUp
    \/ EStopClick
    \/ IntervalTick
    \/ StopTimeout
    \/ RosCreated
    \/ ConnectionChange
    \/ FlushEffects

SpecTeleop == Init /\ [][NextTeleop]_vars

-----------------------------------------------------------------------------
\* C35: while the emergency stop is active, whether it was active before a
\* step or is active after it, every velocity command the step publishes
\* has zero linear and zero angular components
C35_NoMotionCommandWhileEStop ==
    [][(teleop.eStopActive \/ teleop'.eStopActive)
       => \A n \in 1..Len(teleop'.published) :
              teleop'.published[n] = ZeroTwist]_vars

\* the emergency stop is active, a direction is held, the connection is up,
\* a speed key has been pressed, and the step published nothing
C35_Witness ==
    /\ teleop.eStopActive
    /\ teleop.direction \in {"i", "j"}
    /\ teleop.ros /\ teleop.connection /\ ~teleop.effectsPending
    /\ teleop.overallSpeed = 1
    /\ teleop.published = <<>>

\* C36: at most one publish interval is live, and one is live only while a
\* direction is set and the emergency stop is not active; a step in which
\* direction becomes null or the emergency stop is activated leaves no live
\* interval and publishes no non-zero command
C36_OneIntervalOnlyWhileDriving ==
    [][/\ Len(teleop'.timers) <= 1
       /\ teleop'.timers # <<>>
              => teleop'.direction # null /\ ~teleop'.eStopActive
       /\ (\/ teleop.direction # null /\ teleop'.direction = null
           \/ ~teleop.eStopActive /\ teleop'.eStopActive)
              => /\ teleop'.timers = <<>>
                 /\ teleop'.intervalRef = 0
                 /\ \A n \in 1..Len(teleop'.published) :
                        teleop'.published[n] = ZeroTwist]_vars

\* the interval of a held forward key is live and its callback has just
\* published a forward command
C36_Witness ==
    /\ Len(teleop.timers) = 1
    /\ teleop.intervalRef = 1
    /\ teleop.direction = "i"
    /\ ~teleop.eStopActive
    /\ teleop.published = <<Twist(teleop.timers[1])>>
    /\ teleop.published # <<ZeroTwist>>

=============================================================================
